---- MODULE Spec2Model ----
(***************************************************************************)
(* A model of keras_nlp.models.GPTNeoXTokenizer: the special-token-aware   *)
(* wrapper around the byte-pair-encoding engine (BytePairTokenizer), its   *)
(* constructor, get_config, the reconstruction of a tokenizer from a       *)
(* configuration, and the from_preset lookup of the preset-capable         *)
(* classes.                                                                 *)
(***************************************************************************)
EXTENDS Integers, Sequences, FiniteSets, TLC

VARIABLES
    args,      \* the arguments of the caller's constructor call, or NoArgs
    objs,      \* the tokenizers the caller holds: the constructed one, then
               \* the latest one rebuilt from a configuration
    selfObj,   \* the object the last __init__ ran on, as __init__ left it
    outcome,   \* what the last call returned or raised
    callers    \* the calls that concurrent callers have in progress on objs[1]

vars == <<args, objs, selfObj, outcome, callers>>

----------------------------------------------------------------------------
(* Bounds of the model. *)

MaxVocab == 2      \* size of the generated vocabularies
MaxTextLen == 2    \* length of an input text, in atoms
NumCallers == 2    \* callers that use one tokenizer at the same time

----------------------------------------------------------------------------
(* Data. *)

end_token == "<|endoftext|>"

PadTokenId == 0

Unset == -1        \* an attribute __init__ has not assigned yet

Tokens == {"[PAD]", end_token, "a", "ab"}

Range(s) == {s[i] : i \in DOMAIN s}

RECURSIVE SeqsUpTo(_, _)
\* the sequences over S of length at most n
SeqsUpTo(S, n) ==
    IF n = 0 THEN {<<>>}
    ELSE LET shorter == SeqsUpTo(S, n - 1)
         IN  shorter \cup {Append(s, x) : s \in shorter, x \in S}

Injective(s) == \A i, j \in DOMAIN s : s[i] = s[j] => i = j

\* a vocabulary maps token to id; ids are unique and contiguous from 0
VocabOf(s) == [t \in Range(s) |-> (CHOOSE i \in DOMAIN s : s[i] = t) - 1]

ScenarioVocabulary ==
    VocabOf(<<"[PAD]", "[UNK]", end_token, "a", "b">>)

ScenarioVocabularyWithoutEnd ==
    VocabOf(<<"[PAD]", "[UNK]", "a", "b">>)

Vocabularies ==
    {VocabOf(s) : s \in {q \in SeqsUpTo(Tokens, MaxVocab) : Injective(q)}}
        \cup {ScenarioVocabulary, ScenarioVocabularyWithoutEnd}

\* merge rule lists: earlier rules have priority
MergeLists ==
    {<<>>, <<<<"a", "b">>>>, <<<<"b", "a">>, <<"a", "b">>>>}

\* an input text: ordinary characters, and occurrences of the end-of-text
\* marker written out in the text
Atoms == {"a", "b", end_token}

Texts == SeqsUpTo(Atoms, MaxTextLen)

\* the additional keyword arguments of a constructor call: an engine option
\* and, from callers who try to supply their own, unsplittable_tokens
KwargsOver(keys) ==
    {[k \in keys |-> IF k = "option" THEN o ELSE u] :
        o \in {1}, u \in {<<>>, <<"a">>, <<end_token>>, <<"a", end_token>>}}

KwargsSet == UNION {KwargsOver(keys) : keys \in SUBSET {"option", "unsplittable_tokens"}}

NoArgs == [called |-> FALSE, vocabulary |-> <<>>, merges |-> <<>>, kwargs |-> <<>>]

\* an instance as __new__ hands it to __init__: nothing assigned yet
Blank ==
    [engine_built |-> FALSE, vocabulary |-> <<>>, merges |-> <<>>,
     unsplittable_tokens |-> <<>>, options |-> <<>>,
     end_token_id |-> Unset, start_token_id |-> Unset, pad_token_id |-> Unset]

Restrict(f, keys) == [k \in keys |-> f[k]]

\* what a call returned (kind "ok") or raised (kind names the exception)
Result(kind, value, message) == [kind |-> kind, value |-> value, message |-> message]

----------------------------------------------------------------------------
(* The byte-pair-encoding engine, BytePairTokenizer.                        *)

BytePairTokenizer_init(self, vocabulary, merges, unsplittable_tokens, options) ==
    [self EXCEPT !.engine_built = TRUE,
                 !.vocabulary = vocabulary,
                 !.merges = merges,
                 !.unsplittable_tokens = unsplittable_tokens,
                 !.options = options]

get_vocabulary(self) == self.vocabulary

token_to_id(self, token) ==
    IF token \in DOMAIN self.vocabulary
    THEN Result("ok", self.vocabulary[token], <<>>)
    ELSE Result("LookupError", <<>>, <<token>>)

\* the symbols an atom of the text contributes before merging: an unsplittable
\* token stays one unit; the written-out marker is otherwise cut into pieces;
\* an ordinary character is a symbol that merge rules may join to its neighbour
SymbolsOf(atom, unsplittable_tokens) ==
    IF atom \in Range(unsplittable_tokens)
    THEN <<[sym |-> atom, joins |-> FALSE]>>
    ELSE IF atom = end_token
    THEN <<[sym |-> "<|", joins |-> FALSE],
           [sym |-> "endoftext", joins |-> FALSE],
           [sym |-> "|>", joins |-> FALSE]>>
    ELSE <<[sym |-> atom, joins |-> TRUE]>>

RECURSIVE SplitText(_, _)
SplitText(text, unsplittable_tokens) ==
    IF text = <<>> THEN <<>>
    ELSE SymbolsOf(Head(text), unsplittable_tokens)
            \o SplitText(Tail(text), unsplittable_tokens)

PairAt(syms, i, rule) ==
    /\ i + 1 <= Len(syms)
    /\ syms[i].joins /\ syms[i + 1].joins
    /\ syms[i].sym = rule[1] /\ syms[i + 1].sym = rule[2]

RECURSIVE MergePair(_, _)
\* every occurrence of the rule's pair, left to right, becomes one symbol
MergePair(syms, rule) ==
    IF syms = <<>> THEN <<>>
    ELSE IF PairAt(syms, 1, rule)
    THEN <<[sym |-> rule[1] \o rule[2], joins |-> TRUE]>>
            \o MergePair(SubSeq(syms, 3, Len(syms)), rule)
    ELSE <<Head(syms)>> \o MergePair(Tail(syms), rule)

RECURSIVE ApplyMerges(_, _)
\* the earliest rule that applies is applied first, until none applies
ApplyMerges(syms, merges) ==
    LET applies == {r \in DOMAIN merges :
                        \E i \in DOMAIN syms : PairAt(syms, i, merges[r])}
    IN  IF applies = {} THEN syms
        ELSE LET first == CHOOSE r \in applies : \A q \in applies : r <= q
             IN  ApplyMerges(MergePair(syms, merges[first]), merges)

BytePairTokenizer_tokenize(self, text) ==
    LET syms == ApplyMerges(SplitText(text, self.unsplittable_tokens), self.merges)
    IN  IF \E i \in DOMAIN syms : syms[i].sym \notin DOMAIN self.vocabulary
        THEN Result("LookupError", <<>>,
                    <<syms[CHOOSE i \in DOMAIN syms :
                            /\ syms[i].sym \notin DOMAIN self.vocabulary
                            /\ \A j \in 1..(i - 1) :
                                    syms[j].sym \in DOMAIN self.vocabulary].sym>>)
        ELSE Result("ok", [i \in DOMAIN syms |-> self.vocabulary[syms[i].sym]], <<>>)

EngineKeys == {"vocabulary", "merges", "unsplittable_tokens"}

BytePairTokenizer_get_config(self) ==
    [k \in EngineKeys \cup DOMAIN self.options |->
        IF k = "vocabulary" THEN self.vocabulary
        ELSE IF k = "merges" THEN self.merges
        ELSE IF k = "unsplittable_tokens" THEN self.unsplittable_tokens
        ELSE self.options[k]]

----------------------------------------------------------------------------
(* GPTNeoXTokenizer, the wrapper.                                           *)

\* variant: caller-supplied unsplittable tokens taken out of kwargs and joined
\* to the special tokens, duplicates removed
SuperInitCall_Union(self, vocabulary, merges, kwargs) ==
    LET supplied == IF "unsplittable_tokens" \in DOMAIN kwargs
                    THEN kwargs["unsplittable_tokens"] ELSE <<>>
        extra == SelectSeq(supplied, LAMBDA t : t # end_token)
    IN  Result("ok",
               BytePairTokenizer_init(self, vocabulary, merges,
                                      <<end_token>> \o extra,
                                      Restrict(kwargs, DOMAIN kwargs \ {"unsplittable_tokens"})),
               <<>>)

\* super().__init__(vocabulary=..., merges=..., unsplittable_tokens=[end_token],
\* **kwargs): a keyword given twice is a TypeError raised by the call itself,
\* before the engine's constructor runs
SuperInitCall(self, vocabulary, merges, kwargs) ==
    IF "unsplittable_tokens" \in DOMAIN kwargs
    THEN Result("TypeError", self,
                <<"got multiple values for keyword argument", "unsplittable_tokens">>)
    ELSE Result("ok",
                BytePairTokenizer_init(self, vocabulary, merges, <<end_token>>, kwargs),
                <<>>)

\* variant: the presence check left out of __init__
MissingSpecialToken_Skipped(self) == FALSE

\* end_token not in self.get_vocabulary()
MissingSpecialToken(self) == end_token \notin DOMAIN get_vocabulary(self)

\* variant: a message that does not interpolate the token
MissingTokenMessage_Generic(token) ==
    <<"Cannot find a special token in the provided vocabulary. ",
      "Please provide it in your vocabulary ",
      "or use a pretrained vocabulary name.">>

\* the f-string of the ValueError, as its literal parts and interpolated
\* values (the backquotes of the source text are left out of the literals)
MissingTokenMessage(token) ==
    <<"Cannot find token '", token, "' in the provided vocabulary. ",
      "Please provide '", token, "' in your vocabulary ",
      "or use a pretrained vocabulary name.">>

\* variant: pad_token_id looked up like the other ids
AssignSpecialTokenIds_PadLookedUp(self) ==
    LET looked == token_to_id(self, end_token)
        pad == token_to_id(self, "[PAD]")
    IN  IF looked.kind # "ok" THEN Result(looked.kind, self, looked.message)
        ELSE Result("ok",
                    [self EXCEPT !.end_token_id = looked.value,
                                 !.start_token_id = looked.value,
                                 !.pad_token_id = IF pad.kind = "ok" THEN pad.value
                                                  ELSE PadTokenId],
                    <<>>)

\* variant: the end token taken to be the last entry of the vocabulary
AssignSpecialTokenIds_EndIsLast(self) ==
    LET last == Cardinality(DOMAIN self.vocabulary) - 1
    IN  Result("ok",
               [self EXCEPT !.end_token_id = last,
                            !.start_token_id = last,
                            !.pad_token_id = PadTokenId],
               <<>>)

\* variant: start_token_id taken from the padding id instead of the end id
AssignSpecialTokenIds_StartFromPad(self) ==
    LET looked == token_to_id(self, end_token)
    IN  IF looked.kind # "ok" THEN Result(looked.kind, self, looked.message)
        ELSE Result("ok",
                    [self EXCEPT !.end_token_id = looked.value,
                                 !.start_token_id = PadTokenId,
                                 !.pad_token_id = PadTokenId],
                    <<>>)

\* the three assignments that end __init__
AssignSpecialTokenIds(self) ==
    LET looked == token_to_id(self, end_token)
    IN  IF looked.kind # "ok" THEN Result(looked.kind, self, looked.message)
        ELSE Result("ok",
                    [self EXCEPT !.end_token_id = looked.value,
                                 !.start_token_id = looked.value,
                                 !.pad_token_id = PadTokenId],
                    <<>>)

\* __init__: the value of the result is self as __init__ left it
GPTNeoXTokenizer_init(self, vocabulary, merges, kwargs) ==
    LET built == SuperInitCall(self, vocabulary, merges, kwargs)
    IN  IF built.kind # "ok" THEN built
        ELSE IF MissingSpecialToken(built.value)
        THEN Result("ValueError", built.value, MissingTokenMessage(end_token))
        ELSE AssignSpecialTokenIds(built.value)

\* variant: a tokenize that closes the id sequence with the end token
tokenize_WithEndToken(self, text) ==
    LET r == BytePairTokenizer_tokenize(self, text)
    IN  IF r.kind # "ok" THEN r
        ELSE Result("ok", Append(r.value, self.end_token_id), <<>>)

\* tokenize is not overridden: the engine's method runs on the instance
tokenize(self, text) == BytePairTokenizer_tokenize(self, text)

\* variant: get_config without the deletion
get_config_KeepsUnsplittable(self) ==
    Result("ok", BytePairTokenizer_get_config(self), <<>>)

\* get_config: the engine's record with the unsplittable_tokens key deleted
get_config(self) ==
    LET config == BytePairTokenizer_get_config(self)
    IN  IF "unsplittable_tokens" \notin DOMAIN config
        THEN Result("KeyError", <<>>, <<"unsplittable_tokens">>)
        ELSE Result("ok", Restrict(config, DOMAIN config \ {"unsplittable_tokens"}), <<>>)

\* variant: the deletion made in the instance's own attributes
get_config_self_Aliased(self) == [self EXCEPT !.unsplittable_tokens = <<>>]

\* the instance after get_config: the deletion is made in the record that
\* super().get_config() returned, the instance keeps every attribute
get_config_self(self) == self

\* del config["unsplittable_tokens"]; return config
DeleteUnsplittable(config) ==
    IF "unsplittable_tokens" \notin DOMAIN config
    THEN Result("KeyError", <<>>, <<"unsplittable_tokens">>)
    ELSE Result("ok", Restrict(config, DOMAIN config \ {"unsplittable_tokens"}), <<>>)

\* cls(**config)
from_config(config) ==
    IF ~({"vocabulary", "merges"} \subseteq DOMAIN config)
    THEN Result("TypeError", Blank, <<"missing required argument">>)
    ELSE GPTNeoXTokenizer_init(Blank, config["vocabulary"], config["merges"],
                               Restrict(config, DOMAIN config \ {"vocabulary", "merges"}))

----------------------------------------------------------------------------
(* from_preset of the preset-capable classes.                               *)

PresetClasses ==
    {"RobertaTokenizer", "RobertaPreprocessor", "RobertaBackbone",
     "RobertaClassifier", "RobertaMaskedLM"}

\* cls.presets, the registry of each class
presets(cls) == {"roberta_base_en"}

PresetNames == {"roberta_base_en", "roberta_base_en_clowntown"}

\* the keyword arguments the callers of from_preset pass along
PresetKwargs ==
    UNION {{[k \in keys |-> IF k = "num_classes" THEN n
                            ELSE IF k = "load_weights" THEN w ELSE 4] :
                n \in {2, 4}, w \in BOOLEAN} :
           keys \in SUBSET {"num_classes", "load_weights", "sequence_length"}}

\* variant: from_preset without the registry check
from_preset_Unchecked(cls, preset, kwargs) ==
    Result("ok", [cls |-> cls, preset |-> preset, kwargs |-> kwargs], <<>>)

from_preset(cls, preset, kwargs) ==
    IF preset \notin presets(cls)
    THEN Result("ValueError", <<>>, <<"preset must be one of the registered names, received", preset>>)
    ELSE Result("ok", [cls |-> cls, preset |-> preset, kwargs |-> kwargs], <<>>)

----------------------------------------------------------------------------
(* The calls a caller makes.                                                *)

Outcome(op, kind, obj, src, arg, value, message) ==
    [op |-> op, kind |-> kind, obj |-> obj, src |-> src, arg |-> arg,
     value |-> value, message |-> message]

Callers == 1..NumCallers

\* a caller with no call in progress and none returned
IdleCaller ==
    [pc |-> "idle", op |-> "none", text |-> <<>>, snap |-> Blank,
     config |-> <<>>, result |-> Result("ok", <<>>, <<>>)]

Init ==
    /\ args = NoArgs
    /\ objs = <<>>
    /\ selfObj = Blank
    /\ outcome = Outcome("none", "ok", 0, 0, <<>>, <<>>, <<>>)
    /\ callers = [c \in Callers |-> IdleCaller]

\* GPTNeoXTokenizer(vocabulary, merges, **kwargs)
Construct(vocabulary, merges, kwargs) ==
    /\ ~args.called
    /\ LET r == GPTNeoXTokenizer_init(Blank, vocabulary, merges, kwargs)
       IN  /\ args' = [called |-> TRUE, vocabulary |-> vocabulary,
                       merges |-> merges, kwargs |-> kwargs]
           /\ selfObj' = r.value
           /\ objs' = IF r.kind = "ok" THEN <<r.value>> ELSE objs
           /\ outcome' = Outcome("construct", r.kind,
                                 IF r.kind = "ok" THEN 1 ELSE 0,
                                 0, <<>>, <<>>, r.message)
    /\ UNCHANGED callers

\* t(text)
Tokenize(i, text) ==
    /\ LET r == tokenize(objs[i], text)
       IN  outcome' = Outcome("tokenize", r.kind, i, 0, text, r.value, r.message)
    /\ UNCHANGED <<args, objs, selfObj, callers>>

\* t.token_to_id(token)
TokenToId(i, token) ==
    /\ LET r == token_to_id(objs[i], token)
       IN  outcome' = Outcome("token_to_id", r.kind, i, 0, token, r.value, r.message)
    /\ UNCHANGED <<args, objs, selfObj, callers>>

\* t.get_vocabulary()
GetVocabulary(i) ==
    /\ outcome' = Outcome("get_vocabulary", "ok", i, 0, <<>>, get_vocabulary(objs[i]), <<>>)
    /\ UNCHANGED <<args, objs, selfObj, callers>>

\* t.get_config()
GetConfig(i) ==
    /\ LET r == get_config(objs[i])
       IN  outcome' = Outcome("get_config", r.kind, i, 0, <<>>, r.value, r.message)
    /\ objs' = [objs EXCEPT ![i] = get_config_self(objs[i])]
    /\ UNCHANGED <<args, selfObj, callers>>

\* GPTNeoXTokenizer.from_config(config), config the record get_config returned
FromConfig ==
    /\ outcome.op = "get_config"
    /\ outcome.kind = "ok"
    /\ LET r == from_config(outcome.value)
       IN  /\ selfObj' = r.value
           /\ objs' = IF r.kind = "ok" THEN <<objs[1], r.value>> ELSE objs
           /\ outcome' = Outcome("from_config", r.kind,
                                 IF r.kind = "ok" THEN 2 ELSE 0,
                                 outcome.obj, outcome.value, <<>>, r.message)
    /\ UNCHANGED <<args, callers>>

\* cls.from_preset(preset, **kwargs)
FromPreset(cls, preset, kwargs) ==
    /\ LET r == from_preset(cls, preset, kwargs)
       IN  outcome' = Outcome("from_preset", r.kind, 0, 0,
                              [cls |-> cls, preset |-> preset, kwargs |-> kwargs],
                              r.value, r.message)
    /\ UNCHANGED <<args, objs, selfObj, callers>>

Next ==
    \/ \E v \in Vocabularies, m \in MergeLists, k \in KwargsSet : Construct(v, m, k)
    \/ \E i \in DOMAIN objs, text \in Texts : Tokenize(i, text)
    \/ \E i \in DOMAIN objs, token \in Tokens : TokenToId(i, token)
    \/ \E i \in DOMAIN objs : GetVocabulary(i)
    \/ \E i \in DOMAIN objs : GetConfig(i)
    \/ FromConfig

Spec == Init /\ [][Next]_vars

\* the callers of from_preset alone
PresetNext ==
    \E cls \in PresetClasses, preset \in PresetNames, kwargs \in PresetKwargs :
        FromPreset(cls, preset, kwargs)

PresetSpec == Init /\ [][PresetNext]_vars

----------------------------------------------------------------------------
(* Several callers using one constructed tokenizer at the same time: a call *)
(* is entered in one step and returns in a later one, and the steps of      *)
(* different callers interleave.                                            *)

\* the constructor calls that set up the shared tokenizer
ConcArgs ==
    {[vocabulary |-> ScenarioVocabulary, merges |-> <<>>, kwargs |-> <<>>],
     [vocabulary |-> VocabOf(<<end_token, "a", "ab">>),
      merges |-> <<<<"a", "b">>>>, kwargs |-> [option |-> 1]]}

\* the texts the callers tokenize
ConcTexts == {<<end_token>>, <<"a", end_token>>, <<"a", "b">>}

CanCall(c) == objs # <<>> /\ callers[c].pc \in {"idle", "returned"}

\* t(text) is entered: the engine reads the instance
TokenizeBegin(c, text) ==
    /\ CanCall(c)
    /\ callers' = [callers EXCEPT ![c] =
                    [IdleCaller EXCEPT !.pc = "tokenizing", !.op = "tokenize",
                                       !.text = text, !.snap = objs[1]]]
    /\ UNCHANGED <<args, objs, selfObj, outcome>>

\* t(text) returns
TokenizeReturn(c) ==
    /\ callers[c].pc = "tokenizing"
    /\ callers' = [callers EXCEPT ![c] =
                    [IdleCaller EXCEPT !.pc = "returned", !.op = "tokenize",
                                       !.text = callers[c].text,
                                       !.result = tokenize(callers[c].snap, callers[c].text)]]
    /\ UNCHANGED <<args, objs, selfObj, outcome>>

\* t.get_config() is entered: config = super().get_config()
GetConfigSuper(c) ==
    /\ CanCall(c)
    /\ callers' = [callers EXCEPT ![c] =
                    [IdleCaller EXCEPT !.pc = "config_got", !.op = "get_config",
                                       !.config = BytePairTokenizer_get_config(objs[1])]]
    /\ UNCHANGED <<args, objs, selfObj, outcome>>

\* t.get_config() deletes the key from its record and returns it
GetConfigReturn(c) ==
    /\ callers[c].pc = "config_got"
    /\ callers' = [callers EXCEPT ![c] =
                    [IdleCaller EXCEPT !.pc = "returned", !.op = "get_config",
                                       !.result = DeleteUnsplittable(callers[c].config)]]
    /\ objs' = [objs EXCEPT ![1] = get_config_self(objs[1])]
    /\ UNCHANGED <<args, selfObj, outcome>>

ConcNext ==
    \/ \E a \in ConcArgs : Construct(a.vocabulary, a.merges, a.kwargs)
    \/ \E c \in Callers, text \in ConcTexts : TokenizeBegin(c, text)
    \/ \E c \in Callers : TokenizeReturn(c)
    \/ \E c \in Callers : GetConfigSuper(c)
    \/ \E c \in Callers : GetConfigReturn(c)

ConcSpec == Init /\ [][ConcNext]_vars

----------------------------------------------------------------------------
(* Properties.                                                              *)

NoUnsplittableKwarg == "unsplittable_tokens" \notin DOMAIN args.kwargs

IdsSet(t) ==
    /\ t.end_token_id # Unset
    /\ t.start_token_id # Unset
    /\ t.pad_token_id # Unset

\* C1: for every vocabulary that contains "<|endoftext|>", the constructor call
\* GPTNeoXTokenizer(vocabulary, merges) succeeds, and end_token_id and
\* start_token_id both equal the id a direct lookup of "<|endoftext|>" gives
C1_EndAndStartAreTheLookedUpId ==
    (args.called /\ NoUnsplittableKwarg /\ end_token \in DOMAIN args.vocabulary)
        => /\ objs # <<>>
           /\ outcome.op = "construct" => outcome.kind = "ok"
           /\ token_to_id(objs[1], end_token).kind = "ok"
           /\ objs[1].end_token_id = token_to_id(objs[1], end_token).value
           /\ objs[1].start_token_id = token_to_id(objs[1], end_token).value
           /\ objs[1].end_token_id = args.vocabulary[end_token]
           /\ objs[1].start_token_id = objs[1].end_token_id

C1_Witness ==
    /\ outcome.op = "construct"
    /\ outcome.kind = "ok"
    /\ args.vocabulary[end_token] = 1
    /\ objs[1].end_token_id = 1
    /\ objs[1].start_token_id = 1

\* C2: for every vocabulary without "<|endoftext|>" the constructor raises
\* ValueError and the caller gets no instance; no instance the caller holds
\* has an unset special-token id, although the engine part of the rejected
\* object had been built when the check ran
C2_MissingTokenFailsWithoutInstance ==
    /\ (args.called /\ NoUnsplittableKwarg /\ end_token \notin DOMAIN args.vocabulary)
            => /\ objs = <<>>
               /\ outcome.op = "construct"
               /\ outcome.kind = "ValueError"
               /\ outcome.obj = 0
               /\ selfObj.engine_built
               /\ ~IdsSet(selfObj)
    /\ \A i \in DOMAIN objs : IdsSet(objs[i]) /\ objs[i].engine_built

C2_Witness ==
    /\ outcome.op = "construct"
    /\ outcome.kind = "ValueError"
    /\ end_token \notin DOMAIN args.vocabulary
    /\ selfObj.engine_built
    /\ selfObj.end_token_id = Unset
    /\ objs = <<>>

RemediationHint ==
    {"Please provide '", "' in your vocabulary ", "or use a pretrained vocabulary name."}

\* C3: whenever construction fails with the missing-token error, the token
\* "<|endoftext|>" is indeed missing, the error value names that exact string
\* and carries the hint to provide it in the vocabulary or to use a
\* pretrained vocabulary name
C3_ErrorNamesTokenAndRemedy ==
    outcome.kind = "ValueError"
        => /\ outcome.op = "construct"
           /\ end_token \notin DOMAIN args.vocabulary
           /\ end_token \in Range(outcome.message)
           /\ RemediationHint \subseteq Range(outcome.message)

C3_Witness ==
    /\ outcome.kind = "ValueError"
    /\ args.vocabulary = ScenarioVocabularyWithoutEnd
    /\ outcome.message[2] = end_token
    /\ outcome.message[5] = end_token

\* C4: get_config returns the engine's configuration record without the
\* unsplittable_tokens key and with every other field (vocabulary, merges,
\* engine options) present and unchanged
C4_ConfigDropsOnlyUnsplittable ==
    outcome.op = "get_config"
        => /\ outcome.kind = "ok"
           /\ LET base == BytePairTokenizer_get_config(objs[outcome.obj])
                  config == outcome.value
              IN  /\ "unsplittable_tokens" \notin DOMAIN config
                  /\ DOMAIN config = DOMAIN base \ {"unsplittable_tokens"}
                  /\ \A k \in DOMAIN config : config[k] = base[k]
                  /\ config["vocabulary"] = args.vocabulary
                  /\ config["merges"] = args.merges
                  /\ \A k \in DOMAIN args.kwargs :
                        k \in DOMAIN config /\ config[k] = args.kwargs[k]

C4_Witness ==
    /\ outcome.op = "get_config"
    /\ outcome.kind = "ok"
    /\ "option" \in DOMAIN outcome.value
    /\ outcome.value["merges"] # <<>>
    /\ objs[outcome.obj].unsplittable_tokens = <<end_token>>

SameIds(t, u) ==
    /\ t.end_token_id = u.end_token_id
    /\ t.start_token_id = u.start_token_id
    /\ t.pad_token_id = u.pad_token_id

\* C5: round trip: constructing a tokenizer from get_config(t) succeeds and
\* gives a tokenizer with t's end_token_id, start_token_id and pad_token_id
\* and with t's tokenization result for every input text
C5_RoundTrip ==
    /\ outcome.op = "from_config" => outcome.kind = "ok" /\ Len(objs) = 2
    /\ Len(objs) = 2
            => /\ SameIds(objs[2], objs[1])
               /\ \A text \in Texts : tokenize(objs[2], text) = tokenize(objs[1], text)

C5_Witness ==
    /\ outcome.op = "from_config"
    /\ outcome.kind = "ok"
    /\ objs[2].merges # <<>>
    /\ "option" \in DOMAIN objs[2].options
    /\ tokenize(objs[2], <<"a", "b">>) = Result("ok", <<1>>, <<>>)
    /\ tokenize(objs[2], <<end_token, end_token>>) = Result("ok", <<0, 0>>, <<>>)

SuppliedUnsplittable ==
    IF NoUnsplittableKwarg THEN {} ELSE Range(args.kwargs["unsplittable_tokens"])

\* C6 as stated: the engine receives the union of the special tokens and the
\* caller-supplied unsplittable tokens, duplicates removed, so a caller who
\* supplies unsplittable tokens gets a tokenizer holding theirs and
\* "<|endoftext|>"
C6_UnionWithCallerTokens ==
    (args.called /\ end_token \in DOMAIN args.vocabulary)
        => /\ objs # <<>>
           /\ Range(objs[1].unsplittable_tokens) = {end_token} \cup SuppliedUnsplittable
           /\ Injective(objs[1].unsplittable_tokens)

\* C6, amended: the engine receives exactly the special tokens,
\* <<"<|endoftext|>">>; a constructor call that supplies unsplittable_tokens
\* among the keyword arguments fails with TypeError before the engine is
\* built, and the caller gets no tokenizer
C6_ExactlyTheSpecialTokens ==
    /\ (args.called /\ ~NoUnsplittableKwarg)
            => /\ objs = <<>>
               /\ outcome.op = "construct"
               /\ outcome.kind = "TypeError"
               /\ ~selfObj.engine_built
    /\ selfObj.engine_built => selfObj.unsplittable_tokens = <<end_token>>
    /\ \A i \in DOMAIN objs : objs[i].unsplittable_tokens = <<end_token>>

C6_Witness ==
    /\ outcome.op = "construct"
    /\ outcome.kind = "TypeError"
    /\ end_token \in DOMAIN args.vocabulary
    /\ args.kwargs["unsplittable_tokens"] = <<"a">>
    /\ objs = <<>>

\* the engine, built directly from the arguments of the constructor call
EngineOfArgs ==
    BytePairTokenizer_init(Blank, args.vocabulary, args.merges, <<end_token>>, args.kwargs)

\* C7: the result of the wrapper's tokenize is exactly what the engine gives
\* for the same vocabulary, merges and unsplittable set: nothing is cut off,
\* padded or inserted
C7_TokenizeIsTheEngines ==
    outcome.op = "tokenize"
        => LET r == BytePairTokenizer_tokenize(EngineOfArgs, outcome.arg)
           IN  /\ outcome.kind = r.kind
               /\ outcome.value = r.value
               /\ outcome.message = r.message

C7_Witness ==
    /\ outcome.op = "tokenize"
    /\ outcome.kind = "ok"
    /\ outcome.obj = 2
    /\ outcome.arg = <<"a", end_token>>
    /\ outcome.value = <<args.vocabulary["a"], objs[2].end_token_id>>

\* C8: pad_token_id is 0 after every successful construction whatever the
\* vocabulary holds, and the vocabulary {"[PAD]":0, "[UNK]":1,
\* "<|endoftext|>":2, "a":3, "b":4} gives end_token_id 2, start_token_id 2
\* and pad_token_id 0
C8_PadIsZeroAndScenario ==
    /\ \A i \in DOMAIN objs : objs[i].pad_token_id = 0
    /\ (args.called /\ NoUnsplittableKwarg /\ args.vocabulary = ScenarioVocabulary)
            => /\ objs # <<>>
               /\ objs[1].end_token_id = 2
               /\ objs[1].start_token_id = 2
               /\ objs[1].pad_token_id = 0

C8_Witness ==
    /\ outcome.op = "construct"
    /\ outcome.kind = "ok"
    /\ args.vocabulary = ScenarioVocabulary
    /\ objs[1].end_token_id = 2
    /\ objs[1].pad_token_id = 0

\* C9: from_preset of a preset-capable class, called with a name that is not
\* in the class's registry, raises ValueError and returns no object, whatever
\* keyword arguments come with it
C9_UnknownPresetRaises ==
    (outcome.op = "from_preset" /\ outcome.arg.preset \notin presets(outcome.arg.cls))
        => /\ outcome.kind = "ValueError"
           /\ DOMAIN outcome.value = {}

C9_Witness ==
    /\ outcome.op = "from_preset"
    /\ outcome.arg.cls = "RobertaClassifier"
    /\ outcome.arg.preset = "roberta_base_en_clowntown"
    /\ DOMAIN outcome.arg.kwargs = {"num_classes"}
    /\ outcome.kind = "ValueError"

ReadOps == {"tokenize", "token_to_id", "get_vocabulary", "get_config"}

IdsResolve(t) ==
    /\ token_to_id(t, end_token).kind = "ok"
    /\ t.end_token_id = token_to_id(t, end_token).value

\* C10: no drift: every tokenize, token_to_id, get_vocabulary and get_config
\* call leaves end_token_id, start_token_id and pad_token_id of every
\* tokenizer as they were, and after every step end_token_id is the id that
\* token_to_id("<|endoftext|>") returns
C10_NoDrift ==
    [][/\ \A i \in DOMAIN objs' : IdsResolve(objs'[i])
       /\ outcome'.op \in ReadOps
            => /\ DOMAIN objs' = DOMAIN objs
               /\ \A i \in DOMAIN objs : SameIds(objs'[i], objs[i])]_vars

C10_Witness ==
    /\ outcome.op = "tokenize"
    /\ outcome.obj = 2
    /\ Len(objs) = 2
    /\ objs[1].end_token_id = 1
    /\ objs[2].end_token_id = 1
    /\ "[PAD]" \in DOMAIN objs[1].vocabulary

\* C11: across any number of get_config / reconstruct round trips the
\* unsplittable list handed to the engine is exactly <<"<|endoftext|>">>: every
\* reconstruction succeeds from a configuration that does not carry the key,
\* and the token is neither left out nor present twice
C11_UnsplittableExactAcrossRoundTrips ==
    /\ \A i \in DOMAIN objs :
            /\ Len(objs[i].unsplittable_tokens) = 1
            /\ objs[i].unsplittable_tokens[1] = end_token
    /\ outcome.op = "from_config"
            => /\ outcome.kind = "ok"
               /\ "unsplittable_tokens" \notin DOMAIN outcome.arg
               /\ selfObj.engine_built
               /\ selfObj.unsplittable_tokens = <<end_token>>
               /\ selfObj = objs[2]

\* a second round trip: the configuration came from a rebuilt tokenizer
C11_Witness ==
    /\ outcome.op = "from_config"
    /\ outcome.kind = "ok"
    /\ outcome.src = 2
    /\ objs[2].unsplittable_tokens = <<end_token>>
    /\ "option" \in DOMAIN outcome.arg

\* the tokenizer as the constructor call made it
AsConstructed ==
    GPTNeoXTokenizer_init(Blank, args.vocabulary, args.merges, args.kwargs).value

\* C12: concurrent read-only use is safe: however the tokenize and get_config
\* calls of several callers interleave, every call returns what it returns
\* when run alone, and the tokenizer keeps its vocabulary, merges,
\* unsplittable list and special-token ids; get_config removes
\* unsplittable_tokens from the returned record only
C12_ConcurrentReadsAreSafe ==
    objs # <<>>
        => /\ objs[1] = AsConstructed
           /\ \A c \in Callers :
                callers[c].pc = "returned"
                    => /\ callers[c].op = "tokenize"
                            => callers[c].result = tokenize(AsConstructed, callers[c].text)
                       /\ callers[c].op = "get_config"
                            => /\ callers[c].result = get_config(AsConstructed)
                               /\ "unsplittable_tokens" \notin DOMAIN callers[c].result.value
                               /\ objs[1].unsplittable_tokens = <<end_token>>

\* one caller holds the result of its tokenize call and the other the result
\* of its get_config call on the same tokenizer
C12_Witness ==
    /\ callers[1].pc = "returned"
    /\ callers[1].op = "tokenize"
    /\ callers[1].text = <<"a", end_token>>
    /\ callers[1].result = Result("ok", <<3, 2>>, <<>>)
    /\ callers[2].pc = "returned"
    /\ callers[2].op = "get_config"
    /\ callers[2].result.kind = "ok"

====
